---- MODULE Spec2Model ----
(***************************************************************************)
(* Classical Max-Cut benchmark engine of the QUBO track                    *)
(* (corrected_classical_optimization.py): exact optimum by brute force,    *)
(* the trial loop of the two classical heuristics, the per-graph           *)
(* statistics, the multiple-comparison summary and the results file; the   *)
(* script run twice in a row, and the trials on parallel workers.          *)
(* Beside it: the unit tests of the exact solver, the two cut calculators  *)
(* of the triangle graph, the syndrome detection of the 3-qubit bit-flip   *)
(* code, and run_ci.sh next to the workflow it reproduces.                 *)
(*                                                                         *)
(* Numbers: a quality is the exact fraction <<cut_value, exact_optimum>>;  *)
(* means, variances and the pooled standard deviation are compared through *)
(* their integer numerators, so "== 0" and "means differ" are exact.       *)
(* p-values are in per mille (50 = 0.05).                                  *)
(***************************************************************************)
EXTENDS Integers, Sequences, FiniteSets

\* ------------------------------------------------------------------ bounds
\* trials per graph and method (the script runs 20)
NumTrials == 2
\* a heuristic sample may put only the vertices 0..MaxSide-1 on side 1
MaxSide == 3
\* heuristic runs that may fail during one benchmark run
MaxFailures == 1
\* workers that run trials at the same time
MaxWorkers == 2
\* the largest complete graph the unit tests hand to the exact solver
MaxComplete == 6
\* bit flips that noise may put on the encoded state before detection
MaxFlips == 2

\* ------------------------------------------------------- program constants
\* "if quick_mode and n > 12"
QuickCutoff == 12
\* "Graph too large for exact computation: 25 nodes (max 24)"
MaxExactNodes == 24
\* df['schema_version'] = 1
SchemaVersion == 1

\* trial_seed of the documented row of the results file
SeedBase == 6000
\* execution_time of the documented row, in milliseconds (0.006 s)
BaseTime == 6

\* the label of the deprecated comparison
SA_quantum == "Quantum Annealing"

SA == "Classical SA (Metropolis)"
Tabu == "Tabu Search"

\* ------------------------------------------------------------------ graphs
\* Vertices are 0..n-1, an edge is <<u, v>> with u < v.
Graph(n, edges) == [n |-> n, edges |-> edges]

\* The complete graph on n vertices.
Complete(n) == Graph(n, { e \in (0 .. n - 1) \X (0 .. n - 1) : e[1] < e[2] })

CompleteNames == <<"K1", "K2", "K3", "K4", "K5", "K6", "K7">>

Graphs ==
  [ N0  |-> Graph(0, {}),
    E2  |-> Graph(2, {}),
    P2  |-> Graph(2, {<<0, 1>>}),
    K3  |-> Graph(3, {<<0, 1>>, <<0, 2>>, <<1, 2>>}),
    H6  |-> Graph(6, {<<4, 5>>}),
    G12 |-> Graph(12, {<<0, 1>>, <<1, 2>>}),
    G13 |-> Graph(13, {<<0, 1>>, <<0, 2>>, <<1, 2>>}),
    L13 |-> Graph(13, {<<0, 1>>, <<1, 2>>}),
    G25 |-> Graph(25, {<<0, 1>>}),
    K1  |-> Complete(1),
    K2  |-> Complete(2),
    K4  |-> Complete(4),
    K5  |-> Complete(5),
    K6  |-> Complete(6),
    K7  |-> Complete(7),
    P4  |-> Graph(4, {<<0, 1>>, <<1, 2>>, <<2, 3>>}),
    C4  |-> Graph(4, {<<0, 1>>, <<1, 2>>, <<2, 3>>, <<0, 3>>}) ]

\* The runs that are explored: the --quick flag and the battery of graphs.
\* The flag makes no difference below the quick-mode cutoff, so the smallest
\* batteries are run in full mode only.  The edge of H6 joins its two last
\* vertices, which no sample of the bounded samplers separates: both methods
\* return a cut of 0 on it in every trial.
Configs ==
  { <<FALSE, b>> : b \in { <<"E2">>, <<"N0">>, <<"P2">>, <<"G25", "E2">>,
                           <<"K3", "G25">>, <<"G25", "K3">>, <<"H6", "K3">> } }
    \cup
  { <<q, b>> : q \in BOOLEAN, b \in { <<"K3">>, <<"G13">>, <<"G12">> } }

\* The runs whose trials are handed to parallel workers.
ParallelConfigs == { <<FALSE, <<"G25", "K3">>>>, <<TRUE, <<"G13">>>> }

\* The runs that are made twice in a row.
RerunConfigs ==
  { <<FALSE, <<"K3">>>>, <<TRUE, <<"K3">>>>, <<TRUE, <<"L13">>>>,
    <<FALSE, <<"G25", "K3">>>> }

\* The graphs of test_exact_optimum.py: complete graphs, the path and the
\* cycle on four vertices, a single edge.
UnitTestConfigs ==
  { <<q, <<name>>>> :
      q \in BOOLEAN,
      name \in { CompleteNames[n] : n \in 1 .. MaxComplete }
                 \cup {"P4", "C4", "P2"} }

Nodes(g) == 0 .. (g.n - 1)

RECURSIVE Pow2(_)
Pow2(k) == IF k = 0 THEN 1 ELSE 2 * Pow2(k - 1)

Max_first(a, b) == a

Max(a, b) == IF a >= b THEN a ELSE b

\* The i-th tuple of itertools.product([0, 1], repeat=n): vertex 0 is the
\* most significant bit of i.
Assignment(g, i) == [u \in Nodes(g) |-> (i \div Pow2(g.n - 1 - u)) % 2]

\* sum(1 for u, v in graph.edges() if assignment[u] != assignment[v])
cut_value_uncut(g, assignment) ==
  Cardinality({e \in g.edges : assignment[e[1]] = assignment[e[2]]})

cut_value_ordered(g, assignment) ==
  Cardinality({e \in g.edges : assignment[e[1]] < assignment[e[2]]})

cut_value(g, assignment) ==
  Cardinality({e \in g.edges : assignment[e[1]] # assignment[e[2]]})

\* A sample returned by a sampler: the vertices of S on side 1.
Sample(g, S) == [u \in Nodes(g) |-> IF u \in S THEN 1 ELSE 0]

SampleSets(g) == SUBSET { u \in Nodes(g) : u < MaxSide }

VARIABLES
  quick_mode,     \* the --quick flag
  battery,        \* names of the graphs of this run, in order
  gi,             \* index in battery of the graph being processed
  pc,             \* position of run_statistical_comparison
  enum_i,         \* brute force: index of the next assignment
  best_cut,       \* brute force: best cut so far
  evaluated,      \* per graph: assignments the brute force has evaluated
  optimum,        \* per graph: result of compute_exact_max_cut
  trial_id,       \* next trial of the current graph
  results,        \* the result table, one row per completed heuristic run
  failed_trials,  \* heuristic runs that raised
  comparisons,    \* per-graph statistics, in battery order
  p_values,       \* p-value of every compared graph ("nan" when undefined)
  summary,        \* the multiple-comparison block of the console output
  errors,         \* exceptions caught per graph, the batch goes on
  crash,          \* the exception that ended the run, or "none"
  load,           \* what the machine adds to every measured runtime, in ms
  csv,            \* rows of classical_optimization_results.csv
  run,            \* 1 for the first run of the script, 2 for the second
  previous,       \* what the run before this one left behind
  pool,           \* the trials of one graph on the parallel workers
  study,          \* which original cut calculator the verification is run on
  cut_comparisons,\* the bitstrings compared so far, with both cut values
  agreement_rate, \* the agreement analysis over all bitstrings, once made
  qec_pc,         \* position of the bit-flip code experiment
  qubits,         \* data qubits 0..2 and syndrome qubits 3, 4 (basis state)
  flips,          \* the data qubits that noise has flipped, in order
  measurement_results, \* the measured syndrome qubits
  decoded,        \* what decode_syndrome returned
  exit_status,    \* exit status of every command in this checkout
  local_pc,       \* run_ci.sh: the next line
  local_state,    \* run_ci.sh: "running", "passed" or "failed"
  local_ran,      \* run_ci.sh: the commands run so far, with their step
  ci_pc,          \* workflow job: the next line
  ci_state,       \* workflow job: "running", "passed" or "failed"
  ci_ran          \* workflow job: the commands run so far, with their step

vars == <<quick_mode, battery, gi, pc, enum_i, best_cut, evaluated, optimum,
          trial_id, results, failed_trials, comparisons, p_values, summary,
          errors, crash, load, csv, run, previous, pool,
          study, cut_comparisons, agreement_rate,
          qec_pc, qubits, flips, measurement_results, decoded,
          exit_status, local_pc, local_state, local_ran, ci_pc, ci_state,
          ci_ran>>

\* the state of the benchmark script
run_vars == <<quick_mode, battery, gi, pc, enum_i, best_cut, evaluated,
              optimum, trial_id, results, failed_trials, comparisons,
              p_values, summary, errors, crash, load, csv, run, previous,
              pool>>

\* the state of the comparison of the cut calculators
study_vars == <<study, cut_comparisons, agreement_rate>>

\* the state of the bit-flip code experiment
qec_vars == <<qec_pc, qubits, flips, measurement_results, decoded>>

\* the state of run_ci.sh and of the workflow job
ci_vars == <<exit_status, local_pc, local_state, local_ran, ci_pc, ci_state,
             ci_ran>>

\* what the benchmark script never touches
later_vars == <<study_vars, qec_vars, ci_vars>>

\* what no step of the benchmark before the save touches
other_vars == <<load, csv, run, previous, pool, later_vars>>

CurGraph == Graphs[battery[gi]]

NoOptimum == [kind |-> "none", value |-> 0]

\* Nothing is left behind before the first run.
NoRun == [results |-> <<>>, failed_trials |-> <<>>, optimum |-> <<>>,
          csv |-> <<>>]

NoSummary == [printed |-> FALSE, valid |-> 0, total |-> 0, skipped |-> 0,
              significant |-> 0, of |-> 0, corrected |-> <<>>]

\* The machine is idle or busy while the script runs.
Loads == {0, 1}

\* The trials of one graph: one per method and trial index.
Tasks == {SA, Tabu} \X (0 .. NumTrials - 1)

IdleTask == [state |-> "idle", seed |-> 0, out |-> [ok |-> FALSE, cut |-> 0]]

\* overtaken: some worker has finished while a trial the sequential loop
\* runs earlier was not through yet.
NoPool == [graph |-> "none", overtaken |-> FALSE,
           tasks |-> [t \in Tasks |-> IdleTask]]

NoRate == [made |-> FALSE, agreeing |-> 0, total |-> 0, per_mille |-> 0]

\* No cut calculator is being verified.
NoStudy ==
  /\ study = "none"
  /\ cut_comparisons = {}
  /\ agreement_rate = NoRate

NoSyndrome == <<0, 0>>

\* No circuit has been built.
NoQEC ==
  /\ qec_pc = "none"
  /\ qubits = [q \in 0 .. 4 |-> 0]
  /\ flips = <<>>
  /\ measurement_results = NoSyndrome
  /\ decoded = "none"

\* commands that can exit with a non-zero status
MayFail ==
  { "pip_upgrade", "pip_install", "pip_freeze", "grep", "cloud_verification",
    "test_exact_optimum", "test_comprehensive", "ls_files", "safety_check" }

\* Neither run_ci.sh nor the workflow job has been started.
NoCI ==
  /\ exit_status = [c \in MayFail |-> 0]
  /\ local_pc = 1
  /\ local_state = "none"
  /\ local_ran = <<>>
  /\ ci_pc = 1
  /\ ci_state = "none"
  /\ ci_ran = <<>>

\* The start of the script under one of the configurations cs.
BeginRun(cs) ==
  /\ \E c \in cs : quick_mode = c[1] /\ battery = c[2]
  /\ load \in Loads
  /\ csv = <<>>
  /\ run = 1
  /\ previous = NoRun
  /\ pool = NoPool
  /\ gi = 1
  /\ pc = "optimum"
  /\ enum_i = 0
  /\ best_cut = 0
  /\ evaluated = [k \in 1 .. Len(battery) |-> 0]
  /\ optimum = [k \in 1 .. Len(battery) |-> NoOptimum]
  /\ trial_id = 0
  /\ results = <<>>
  /\ failed_trials = <<>>
  /\ comparisons = <<>>
  /\ p_values = <<>>
  /\ summary = NoSummary
  /\ errors = <<>>
  /\ crash = "none"

Begin(cs) == BeginRun(cs) /\ NoStudy /\ NoQEC /\ NoCI

\* The benchmark script is not running.
NoBenchmark == BeginRun({<<FALSE, <<>>>>}) /\ load = 0

Init == Begin(Configs)

\* ------------------------------------------------- compute_exact_max_cut
\* "if quick_mode and n > 12: return compute_tabu_approximation(graph)",
\* the check at the top of the function.
UsesApproximation_always(q, n) == q

UsesApproximation_from_cutoff(q, n) == q /\ n >= QuickCutoff

UsesApproximation(q, n) == q /\ n > QuickCutoff

\* The size gate in front of the enumeration.
TooLarge_never(n) == FALSE

TooLarge(n) == n > MaxExactNodes

\* ValueError: Graph too large for exact computation: 25 nodes (max 24).
\* Use --quick flag or implement heuristic baselines.
GraphTooLarge(name, n) ==
  [exc |-> "ValueError", graph_name |-> name, nodes |-> n,
   max |-> MaxExactNodes, hint |-> "--quick"]

\* Leave the current graph: to the next one, or to the summary.
Advance ==
  IF gi < Len(battery)
  THEN gi' = gi + 1 /\ pc' = "optimum"
  ELSE gi' = gi /\ pc' = "correction"

\* What the batch does with a graph whose optimum could not be computed: the
\* error is kept and the next graph is taken.
SkipGraph_abort == gi' = gi /\ pc' = "crashed"

SkipGraph == Advance

\* Quick mode on a graph above the cutoff: one Tabu run stands for the
\* optimum.
QuickApproximation ==
  /\ pc = "optimum"
  /\ UsesApproximation(quick_mode, CurGraph.n)
  /\ \E S \in SampleSets(CurGraph) :
       optimum' = [optimum EXCEPT ![gi] =
                     [kind |-> "approx",
                      value |-> cut_value(CurGraph, Sample(CurGraph, S))]]
  /\ pc' = "trials"
  /\ trial_id' = 0
  /\ UNCHANGED <<quick_mode, battery, gi, enum_i, best_cut, evaluated, results,
                 failed_trials, comparisons, p_values, summary, errors, crash>>
  /\ UNCHANGED other_vars

\* The graph is above the exact-search limit: the call raises, the graph is
\* given up and the batch goes on with the next graph.
RejectTooLarge ==
  /\ pc = "optimum"
  /\ ~UsesApproximation(quick_mode, CurGraph.n)
  /\ TooLarge(CurGraph.n)
  /\ errors' = Append(errors, GraphTooLarge(battery[gi], CurGraph.n))
  /\ optimum' = [optimum EXCEPT ![gi] = [kind |-> "error", value |-> 0]]
  /\ SkipGraph
  /\ UNCHANGED <<quick_mode, battery, enum_i, best_cut, evaluated, trial_id,
                 results,
                 failed_trials, comparisons, p_values, summary, crash>>
  /\ UNCHANGED other_vars

\* best_cut = 0, then the loop over product([0, 1], repeat=n).
StartEnumeration ==
  /\ pc = "optimum"
  /\ ~UsesApproximation(quick_mode, CurGraph.n)
  /\ ~TooLarge(CurGraph.n)
  /\ pc' = "enum"
  /\ enum_i' = 0
  /\ best_cut' = 0
  /\ UNCHANGED <<quick_mode, battery, gi, evaluated, optimum, trial_id, results,
                 failed_trials, comparisons, p_values, summary, errors, crash>>
  /\ UNCHANGED other_vars

\* best_cut = max(best_cut, cut_value)
best_cut_last(best, cut) == cut

best_cut_next(best, cut) == Max(best, cut)

\* One iteration of the loop.
EnumerateStep ==
  /\ pc = "enum"
  /\ enum_i < Pow2(CurGraph.n)
  /\ best_cut' = best_cut_next(best_cut,
                               cut_value(CurGraph, Assignment(CurGraph, enum_i)))
  /\ enum_i' = enum_i + 1
  /\ evaluated' = [evaluated EXCEPT ![gi] = @ + 1]
  /\ UNCHANGED <<quick_mode, battery, gi, pc, optimum, trial_id, results,
                 failed_trials, comparisons, p_values, summary, errors, crash>>
  /\ UNCHANGED other_vars

\* return best_cut
FinishEnumeration ==
  /\ pc = "enum"
  /\ enum_i = Pow2(CurGraph.n)
  /\ optimum' = [optimum EXCEPT ![gi] = [kind |-> "exact", value |-> best_cut]]
  /\ pc' = "trials"
  /\ trial_id' = 0
  /\ UNCHANGED <<quick_mode, battery, gi, enum_i, best_cut, evaluated, results,
                 failed_trials, comparisons, p_values, summary, errors, crash>>
  /\ UNCHANGED other_vars

\* ------------------------------------------------------------ trial loop
\* What one sampler call gives: the cut of the returned sample, or the
\* sampler raised.
Ran(c) == [ok |-> TRUE, cut |-> c]
Raised == [ok |-> FALSE, cut |-> 0]

HeuristicOutcomes(g) ==
  { Ran(cut_value(g, Sample(g, S))) : S \in SampleSets(g) } \cup {Raised}

\* The seed of one trial: a fixed base seed offset by the trial index.  It is
\* set once per trial (np.random.seed(trial_seed), and the seed handed to the
\* sampler), so the two methods of a trial run on the same seed.
trial_seed_fixed(name, method, trial) == SeedBase

\* the seed taken from the clock
trial_seed_clock(name, method, trial) == SeedBase + trial + load

trial_seed(name, method, trial) == SeedBase + trial

\* A sampler is a function of its seed: a call the run before this one has
\* made on the same graph with the same method and seed gives the same
\* outcome again; any other call gives any outcome.
KnownOutcomes_unseeded(name, method, seed) == {}

KnownOutcomes(name, method, seed) ==
  { Ran(previous.results[i].cut_value) :
      i \in { j \in 1 .. Len(previous.results) :
                /\ previous.results[j].graph_name = name
                /\ previous.results[j].method = method
                /\ previous.results[j].trial_seed = seed } }
    \cup
  { Raised :
      i \in { j \in 1 .. Len(previous.failed_trials) :
                /\ previous.failed_trials[j].graph_name = name
                /\ previous.failed_trials[j].method = method
                /\ trial_seed(name, method, previous.failed_trials[j].trial_id)
                     = seed } }

SamplerOutcomes(name, method, seed) ==
  IF KnownOutcomes(name, method, seed) = {}
  THEN HeuristicOutcomes(Graphs[name])
  ELSE KnownOutcomes(name, method, seed)

\* execution_time: the runtime of the method as the clock measured it.
execution_time(method) == BaseTime + load

\* sa_result['quality'] = sa_result['cut_value'] / exact_optimum
\* The fraction is kept as <<numerator, denominator>>; a zero divisor raises
\* ZeroDivisionError.
quality_inverted(cut, exact_optimum) == <<exact_optimum, cut>>

quality(cut, exact_optimum) == <<cut, exact_optimum>>

DivisionRaises(exact_optimum) == exact_optimum = 0

\* One row of the result table.
Row(name, method, trial, cut, exact_optimum) ==
  [graph_name |-> name, method |-> method, trial_id |-> trial,
   trial_seed |-> trial_seed(name, method, trial),
   cut_value |-> cut, execution_time |-> execution_time(method),
   exact_optimum |-> exact_optimum,
   quality |-> quality(cut, exact_optimum)]

FailedTrial(name, method, trial) ==
  [graph_name |-> name, method |-> method, trial_id |-> trial]

RowsOf(name, method, trial, out, exact_optimum) ==
  IF out.ok THEN <<Row(name, method, trial, out.cut, exact_optimum)>> ELSE <<>>

FailuresOf_dropped(name, method, trial, out) == <<>>

FailuresOf(name, method, trial, out) ==
  IF out.ok THEN <<>> ELSE <<FailedTrial(name, method, trial)>>

\* The rows of a trial go to the end of the result table.
extend_overwriting(table, rows) == rows

extend(table, rows) == table \o rows

\* One trial: both samplers run on the graph, the quality of each result is
\* normalised by the optimum of the graph, the rows are appended.  A sampler
\* that raises gives a failed trial and no row.
RunTrial ==
  /\ pc = "trials"
  /\ trial_id < NumTrials
  /\ \E sa_result \in SamplerOutcomes(battery[gi], SA,
                                       trial_seed(battery[gi], SA, trial_id)),
        tabu_result \in SamplerOutcomes(battery[gi], Tabu,
                                         trial_seed(battery[gi], Tabu, trial_id)) :
       LET name == battery[gi]
           opt == optimum[gi].value
           failures == FailuresOf(name, SA, trial_id, sa_result)
                         \o FailuresOf(name, Tabu, trial_id, tabu_result)
       IN /\ Len(failed_trials) + Len(failures) <= MaxFailures
          /\ IF (sa_result.ok \/ tabu_result.ok) /\ DivisionRaises(opt)
             THEN /\ crash' = "ZeroDivisionError"
                  /\ pc' = "crashed"
                  /\ UNCHANGED <<results, failed_trials, trial_id>>
             ELSE /\ results' =
                       extend(results,
                              RowsOf(name, SA, trial_id, sa_result, opt)
                                \o RowsOf(name, Tabu, trial_id, tabu_result, opt))
                  /\ failed_trials' = failed_trials \o failures
                  /\ trial_id' = trial_id + 1
                  /\ UNCHANGED <<pc, crash>>
  /\ UNCHANGED <<quick_mode, battery, gi, enum_i, best_cut, evaluated, optimum,
                 comparisons, p_values, summary, errors>>
  /\ UNCHANGED other_vars

\* ---------------------------------------------------- statistics per graph
\* Significance level of the correction, per mille (alpha = 0.05).
Alpha == 50

RECURSIVE SumOf(_)
SumOf(seq) == IF seq = <<>> THEN 0 ELSE Head(seq) + SumOf(Tail(seq))

RECURSIVE Cuts(_, _, _)
\* cut values of the rows of one graph and one method, in table order
Cuts(rows, name, method) ==
  IF rows = <<>> THEN <<>>
  ELSE LET r == Head(rows)
           rest == Cuts(Tail(rows), name, method)
       IN IF r.graph_name = name /\ r.method = method
          THEN <<r.cut_value>> \o rest ELSE rest

Squares(seq) == [k \in 1 .. Len(seq) |-> seq[k] * seq[k]]

\* Numerator of the sum of squared deviations of a sample of qualities
\* c / exact_optimum:  sum((x - mean)^2) = SSD / (n * exact_optimum^2).
SSD(seq) == Len(seq) * SumOf(Squares(seq)) - SumOf(seq) * SumOf(seq)

\* Numerator of tabu_mean - sa_mean over n_sa * n_tabu * exact_optimum.
MeanDiff(sa, tabu) == SumOf(tabu) * Len(sa) - SumOf(sa) * Len(tabu)

\* abs(tabu_mean - sa_mean) < 1e-10: the smallest non-zero difference of two
\* means is 1 / (n_sa * n_tabu * exact_optimum), far above the tolerance.
MeansEqual(sa, tabu) == MeanDiff(sa, tabu) = 0

\* The sample standard deviation (ddof = 1) needs two values.
HasStd(seq) == Len(seq) >= 2

\* pooled_std = sqrt(((n1-1)*std1^2 + (n2-1)*std2^2) / (n1+n2-2)), by sign:
\* "nan", "zero" or "pos".
pooled_std(sa, tabu) ==
  IF ~(HasStd(sa) /\ HasStd(tabu)) THEN "nan"
  ELSE IF SSD(sa) * Len(tabu) + SSD(tabu) * Len(sa) = 0 THEN "zero"
  ELSE "pos"

\* if pooled_std > 0: Cohen's d is printed as a number
\* elif pooled_std == 0:
\*     if abs(tabu_mean - sa_mean) < 1e-10: "Cohen's d: 0.0 (identical samples)"
\*     else: "Cohen's d: undefined (division by zero)"
cohens_d_old(sa, tabu) ==
  IF pooled_std(sa, tabu) = "pos" THEN "number"
  ELSE IF pooled_std(sa, tabu) = "zero" THEN "0.0 (identical samples)"
  ELSE "undefined (too few samples)"

cohens_d(sa, tabu) ==
  IF pooled_std(sa, tabu) = "pos" THEN "number"
  ELSE IF pooled_std(sa, tabu) = "zero"
       THEN IF MeansEqual(sa, tabu) THEN "0.0 (identical samples)"
            ELSE "undefined (division by zero)"
  ELSE "undefined (too few samples)"

\* Welch's t statistic (equal_var=False), by kind: the difference of the means
\* over sqrt(var1/n1 + var2/n2).  0/0 is nan, x/0 is infinite.
t_statistic(sa, tabu) ==
  IF ~(HasStd(sa) /\ HasStd(tabu)) THEN "nan"
  ELSE IF SSD(sa) = 0 /\ SSD(tabu) = 0
       THEN IF MeansEqual(sa, tabu) THEN "nan" ELSE "inf"
  ELSE "finite"

NaN == [nan |-> TRUE, p |-> 0]
P(v) == [nan |-> FALSE, p |-> v]

\* The square of a finite t statistic is TSqNum / TSqDen:
\*   t^2 = diff^2 / (var1/n1 + var2/n2)
TSqNum(sa, tabu) ==
  MeanDiff(sa, tabu) * MeanDiff(sa, tabu) * (Len(sa) - 1) * (Len(tabu) - 1)

TSqDen(sa, tabu) ==
  Len(tabu) * Len(tabu) * SSD(sa) * (Len(tabu) - 1)
    + Len(sa) * Len(sa) * SSD(tabu) * (Len(sa) - 1)

\* The p-value of ttest_ind, per mille: nan for a nan statistic, 0 for an
\* infinite one; for a finite one the t distribution is cut into two classes,
\* a small p-value (0.010) from |t| = 3 on and a large one (0.400) below.
p_value(sa, tabu) ==
  IF t_statistic(sa, tabu) = "nan" THEN NaN
  ELSE IF t_statistic(sa, tabu) = "inf" THEN P(0)
  ELSE IF TSqNum(sa, tabu) >= 9 * TSqDen(sa, tabu) THEN P(10)
  ELSE P(400)

\* The line printed under the t statistic; the older output had "P-value: nan"
\* there.
t_report_bare(p) == "p-value"

t_report(p) ==
  IF p.nan THEN "t-test undefined (identical samples)" ELSE "p-value"

\* Results Summary of one graph, after its last trial.
AnalyzeGraph ==
  /\ pc = "trials"
  /\ trial_id = NumTrials
  /\ LET name == battery[gi]
         sa == Cuts(results, name, SA)
         tabu == Cuts(results, name, Tabu)
         p == p_value(sa, tabu)
     IN /\ comparisons' = Append(comparisons,
               [graph_name |-> name, sa |-> sa, tabu |-> tabu,
                cohens_d |-> cohens_d(sa, tabu),
                t_statistic |-> t_statistic(sa, tabu),
                p_value |-> p, t_report |-> t_report(p)])
        /\ p_values' = Append(p_values, p)
  /\ Advance
  /\ UNCHANGED <<quick_mode, battery, enum_i, best_cut, evaluated, optimum,
                 trial_id, results, failed_trials, summary, errors, crash>>
  /\ UNCHANGED other_vars

\* ------------------------------------------- multiple comparison correction
\* valid_p = [p for p in p_values if not np.isnan(p)]
valid_p_all(ps) == ps

valid_p(ps) == SelectSeq(ps, LAMBDA p : ~p.nan)

\* Holm-Bonferroni, step down: the k-th smallest of m p-values is rejected
\* when it and every smaller one satisfy p <= alpha / (m - rank + 1).
Smaller(ps, k) ==
  Cardinality({j \in 1 .. Len(ps) :
                 ps[j].p < ps[k].p \/ (ps[j].p = ps[k].p /\ j < k)})

HolmPasses(ps, k) == ps[k].p * (Len(ps) - Smaller(ps, k)) <= Alpha

HolmRejected(ps) ==
  { k \in 1 .. Len(ps) :
      \A j \in 1 .. Len(ps) : Smaller(ps, j) <= Smaller(ps, k) => HolmPasses(ps, j) }

\* MULTIPLE COMPARISON CORRECTION block:
\*   Valid tests: <valid>/<total>
\*   Skipped identical cases: <skipped>
\*   Significant after correction: <significant>/<of>
summary_of_valid(ps) ==
  [printed |-> TRUE,
   valid |-> Len(valid_p(ps)), total |-> Len(ps),
   skipped |-> Len(ps) - Len(valid_p(ps)),
   significant |-> Cardinality(HolmRejected(valid_p(ps))),
   of |-> Len(valid_p(ps)),
   corrected |-> valid_p(ps)]

summary_of(ps) ==
  [printed |-> TRUE,
   valid |-> Len(valid_p(ps)), total |-> Len(ps),
   skipped |-> Len(ps) - Len(valid_p(ps)),
   significant |-> Cardinality(HolmRejected(valid_p(ps))),
   of |-> Len(ps),
   corrected |-> valid_p(ps)]

MultipleComparison ==
  /\ pc = "correction"
  /\ summary' = summary_of(p_values)
  /\ pc' = "save"
  /\ UNCHANGED <<quick_mode, battery, gi, enum_i, best_cut, evaluated, optimum,
                 trial_id, results, failed_trials, comparisons, p_values,
                 errors, crash>>
  /\ UNCHANGED other_vars

\* ---------------------------------------------------------- results file
\* One line of the file under the header
\*   method,solution,cut_value,execution_time,trial_seed,quality,graph_name,
\*   exact_optimum,schema_version
\* (the solution column, the sample itself, is left out);
\* df['schema_version'] = 1 puts the version in every line.
CsvRow_unversioned(r) ==
  [method |-> r.method, cut_value |-> r.cut_value,
   execution_time |-> r.execution_time, trial_seed |-> r.trial_seed,
   quality |-> r.quality, graph_name |-> r.graph_name,
   exact_optimum |-> r.exact_optimum]

CsvRow(r) ==
  [method |-> r.method, cut_value |-> r.cut_value,
   execution_time |-> r.execution_time, trial_seed |-> r.trial_seed,
   quality |-> r.quality, graph_name |-> r.graph_name,
   exact_optimum |-> r.exact_optimum, schema_version |-> SchemaVersion]

\* The table is written to classical_optimization_results.csv.
SaveResults ==
  /\ pc = "save"
  /\ csv' = [i \in 1 .. Len(results) |-> CsvRow(results[i])]
  /\ pc' = "done"
  /\ UNCHANGED <<quick_mode, battery, gi, enum_i, best_cut, evaluated, optimum,
                 trial_id, results, failed_trials, comparisons, p_values,
                 summary, errors, crash, load, run, previous, pool>>
  /\ UNCHANGED later_vars

\* ------------------------------------------------------- parallel workers
\* The trials of the current graph are handed out: every trial gets its seed
\* before any worker runs.
Dispatch ==
  /\ pc = "trials"
  /\ trial_id = 0
  /\ pool' = [graph |-> battery[gi], overtaken |-> FALSE,
              tasks |-> [t \in Tasks |->
                           [state |-> "queued",
                            seed |-> trial_seed(battery[gi], t[1], t[2]),
                            out |-> Raised]]]
  /\ pc' = "workers"
  /\ UNCHANGED <<quick_mode, battery, gi, enum_i, best_cut, evaluated, optimum,
                 trial_id, results, failed_trials, comparisons, p_values,
                 summary, errors, crash, load, csv, run, previous>>
  /\ UNCHANGED later_vars

InState(st) == { t \in Tasks : pool.tasks[t].state = st }

\* A free worker takes any trial that waits.
WorkerStart ==
  /\ pc = "workers"
  /\ Cardinality(InState("running")) < MaxWorkers
  /\ \E t \in InState("queued") :
       pool' = [pool EXCEPT !.tasks[t].state = "running"]
  /\ UNCHANGED <<quick_mode, battery, gi, pc, enum_i, best_cut, evaluated,
                 optimum, trial_id, results, failed_trials, comparisons,
                 p_values, summary, errors, crash, load, csv, run, previous>>
  /\ UNCHANGED later_vars

\* t1 is run before t2 by the sequential loop
Earlier(t1, t2) == t1[2] < t2[2] \/ (t1[2] = t2[2] /\ t1[1] = SA /\ t2[1] = Tabu)

FailedSoFar ==
  Len(failed_trials)
    + Cardinality({ t \in InState("done") : ~pool.tasks[t].out.ok })

\* A worker ends its trial: the sampler has run on the seed of the trial.
WorkerFinish ==
  /\ pc = "workers"
  /\ \E t \in InState("running") :
       \E out \in SamplerOutcomes(pool.graph, t[1], pool.tasks[t].seed) :
         /\ out.ok \/ FailedSoFar < MaxFailures
         /\ pool' = [pool EXCEPT
                       !.tasks[t].state = "done",
                       !.tasks[t].out = out,
                       !.overtaken =
                         @ \/ \E e \in Tasks \ InState("done") : Earlier(e, t)]
  /\ UNCHANGED <<quick_mode, battery, gi, pc, enum_i, best_cut, evaluated,
                 optimum, trial_id, results, failed_trials, comparisons,
                 p_values, summary, errors, crash, load, csv, run, previous>>
  /\ UNCHANGED later_vars

\* The order in which the collector goes through the trials: by trial index,
\* within a trial the annealer before Tabu.
TaskOrder_by_method ==
  [k \in 1 .. 2 * NumTrials |->
     <<IF k <= NumTrials THEN SA ELSE Tabu, (k - 1) % NumTrials>>]

TaskOrder ==
  [k \in 1 .. 2 * NumTrials |->
     <<IF k % 2 = 1 THEN SA ELSE Tabu, (k - 1) \div 2>>]

RECURSIVE CollectedRows(_, _)
CollectedRows(k, exact_optimum) ==
  IF k > 2 * NumTrials THEN <<>>
  ELSE LET t == TaskOrder[k]
       IN RowsOf(pool.graph, t[1], t[2], pool.tasks[t].out, exact_optimum)
            \o CollectedRows(k + 1, exact_optimum)

RECURSIVE CollectedFailures(_)
CollectedFailures(k) ==
  IF k > 2 * NumTrials THEN <<>>
  ELSE LET t == TaskOrder[k]
       IN FailuresOf(pool.graph, t[1], t[2], pool.tasks[t].out)
            \o CollectedFailures(k + 1)

\* The single collector: once every worker is through, the results go into
\* the table.
Collect ==
  /\ pc = "workers"
  /\ InState("done") = Tasks
  /\ IF (\E t \in Tasks : pool.tasks[t].out.ok)
          /\ DivisionRaises(optimum[gi].value)
     THEN /\ crash' = "ZeroDivisionError"
          /\ pc' = "crashed"
          /\ UNCHANGED <<results, failed_trials, trial_id, pool>>
     ELSE /\ results' = extend(results, CollectedRows(1, optimum[gi].value))
          /\ failed_trials' = failed_trials \o CollectedFailures(1)
          /\ trial_id' = NumTrials
          /\ pc' = "trials"
          /\ pool' = [pool EXCEPT
                        !.tasks = [t \in Tasks |->
                                     [@[t] EXCEPT !.state = "collected"]]]
          /\ UNCHANGED crash
  /\ UNCHANGED <<quick_mode, battery, gi, enum_i, best_cut, evaluated, optimum,
                 comparisons, p_values, summary, errors, load, csv, run,
                 previous>>
  /\ UNCHANGED later_vars

\* ------------------------------------------------------------ second run
\* The script is started again with the same command line after a run that
\* came to its end: a new process, whatever load the machine has now; the
\* results file of the first run is still on the disk.
Restart ==
  /\ pc = "done"
  /\ run = 1
  /\ run' = 2
  /\ previous' = [results |-> results, failed_trials |-> failed_trials,
                  optimum |-> optimum, csv |-> csv]
  /\ load' \in Loads
  /\ gi' = 1
  /\ pc' = "optimum"
  /\ enum_i' = 0
  /\ best_cut' = 0
  /\ evaluated' = [k \in 1 .. Len(battery) |-> 0]
  /\ optimum' = [k \in 1 .. Len(battery) |-> NoOptimum]
  /\ trial_id' = 0
  /\ results' = <<>>
  /\ failed_trials' = <<>>
  /\ comparisons' = <<>>
  /\ p_values' = <<>>
  /\ summary' = NoSummary
  /\ errors' = <<>>
  /\ crash' = "none"
  /\ UNCHANGED <<quick_mode, battery, csv, pool>>
  /\ UNCHANGED later_vars

Next ==
  \/ QuickApproximation
  \/ RejectTooLarge
  \/ StartEnumeration
  \/ EnumerateStep
  \/ FinishEnumeration
  \/ RunTrial
  \/ AnalyzeGraph
  \/ MultipleComparison
  \/ SaveResults

Spec == Init /\ [][Next]_vars

\* The script run twice in a row with the same command line.
InitRerun == Begin(RerunConfigs)

NextRerun ==
  \/ Next
  \/ Restart

SpecRerun == InitRerun /\ [][NextRerun]_vars

\* The script with its trials on parallel workers.
InitParallel == Begin(ParallelConfigs)

NextParallel ==
  \/ QuickApproximation
  \/ RejectTooLarge
  \/ StartEnumeration
  \/ EnumerateStep
  \/ FinishEnumeration
  \/ Dispatch
  \/ WorkerStart
  \/ WorkerFinish
  \/ Collect
  \/ AnalyzeGraph
  \/ MultipleComparison
  \/ SaveResults

SpecParallel == InitParallel /\ [][NextParallel]_vars

\* The unit tests of the exact solver: compute_exact_max_cut on one small
\* graph.
InitUnitTests == Begin(UnitTestConfigs)

NextUnitTests ==
  \/ StartEnumeration
  \/ EnumerateStep
  \/ FinishEnumeration

SpecUnitTests == InitUnitTests /\ [][NextUnitTests]_vars

\* ------------------------------------------- cut calculators on the triangle
\* The cut values of the 3-node triangle as two calculators give them: the
\* original one under verification and the edge-counting one.  Two original
\* calculators are documented: the table of cut values of the original study,
\* and OriginalMaxCut with its 0.5 scaling factor.  A value is the exact
\* fraction <<numerator, denominator>>.
Bitstrings == [1 .. 3 -> {"0", "1"}]

\* bits = [int(b) for b in bitstring]
bits_of(bitstring) ==
  [i \in 0 .. 2 |-> IF bitstring[i + 1] = "1" THEN 1 ELSE 0]

\* if bits[u] != bits[v]: cut += 1
cut_if(differ) == IF differ THEN 1 ELSE 0

\* The verification method: one test per edge of the triangle.
calculate_cut_two_edges(bitstring) ==
  LET bits == bits_of(bitstring)
  IN cut_if(bits[0] # bits[1]) + cut_if(bits[1] # bits[2])

calculate_cut(bitstring) ==
  LET bits == bits_of(bitstring)
  IN cut_if(bits[0] # bits[1]) + cut_if(bits[1] # bits[2])
       + cut_if(bits[0] # bits[2])

\* The original study method: the table of cut values.
original_cut_values ==
  [b \in Bitstrings |->
     CASE b = <<"0", "0", "0">> -> 0
       [] b = <<"0", "0", "1">> -> 2
       [] b = <<"0", "1", "0">> -> 1
       [] b = <<"0", "1", "1">> -> 3
       [] b = <<"1", "0", "0">> -> 2
       [] b = <<"1", "0", "1">> -> 0
       [] b = <<"1", "1", "0">> -> 3
       [] b = <<"1", "1", "1">> -> 1]

\* OriginalMaxCut: the edges between the two parts of the partition,
\* scaled by 0.5.
OriginalMaxCut_unscaled(bitstring) ==
  LET bits == bits_of(bitstring)
      part == { u \in 0 .. 2 : bits[u] = 1 }
  IN << Cardinality({ e \in Graphs.K3.edges : (e[1] \in part) # (e[2] \in part) }),
        1 >>

OriginalMaxCut(bitstring) ==
  LET bits == bits_of(bitstring)
      part == { u \in 0 .. 2 : bits[u] = 1 }
  IN << Cardinality({ e \in Graphs.K3.edges : (e[1] \in part) # (e[2] \in part) }),
        2 >>

\* VerificationMaxCut: direct edge counting without scaling.
VerificationMaxCut(bitstring) ==
  << cut_value(Graphs.K3, bits_of(bitstring)), 1 >>

Studies == {"original_study", "OriginalMaxCut"}

original_cut(s, bitstring) ==
  IF s = "original_study"
  THEN << original_cut_values[bitstring], 1 >>
  ELSE OriginalMaxCut(bitstring)

verification_cut(s, bitstring) ==
  IF s = "original_study"
  THEN << calculate_cut(bitstring), 1 >>
  ELSE VerificationMaxCut(bitstring)

\* original_cut == verification_cut, on numbers
SameValue(a, b) == a[1] * b[2] = b[1] * a[2]

Compared == { c.bitstring : c \in cut_comparisons }

\* Both calculators are run on one more bitstring.
CompareCuts ==
  /\ study \in Studies
  /\ \E bitstring \in Bitstrings \ Compared :
       LET original == original_cut(study, bitstring)
           verification == verification_cut(study, bitstring)
       IN cut_comparisons' =
            cut_comparisons \cup
              { [bitstring |-> bitstring, original |-> original,
                 verification |-> verification,
                 agreement |-> SameValue(original, verification)] }
  /\ UNCHANGED <<study, agreement_rate>>
  /\ UNCHANGED <<run_vars, qec_vars, ci_vars>>

\* The agreement rate over all 8 bitstrings.
AgreementAnalysis ==
  /\ study \in Studies
  /\ Compared = Bitstrings
  /\ ~agreement_rate.made
  /\ LET agreeing == Cardinality({ c \in cut_comparisons : c.agreement })
         total == Cardinality(cut_comparisons)
     IN agreement_rate' = [made |-> TRUE, agreeing |-> agreeing,
                           total |-> total,
                           per_mille |-> (1000 * agreeing) \div total]
  /\ UNCHANGED <<study, cut_comparisons>>
  /\ UNCHANGED <<run_vars, qec_vars, ci_vars>>

InitCutStudy ==
  /\ NoBenchmark
  /\ NoQEC
  /\ NoCI
  /\ study \in Studies
  /\ cut_comparisons = {}
  /\ agreement_rate = NoRate

NextCutStudy ==
  \/ CompareCuts
  \/ AgreementAnalysis

SpecCutStudy == InitCutStudy /\ [][NextCutStudy]_vars

\* ------------------------------------------------ 3-qubit bit-flip code
\* The encoding |0>_L = |000>, |1>_L = |111>; bit flips keep the register in
\* a basis state, which is what qubits holds.
DataQubits == 0 .. 2

\* create_syndrome_detection_circuit: the CNOTs <<control, target>> in order.
syndrome_detection_circuit ==
  << <<0, 3>>, <<1, 3>>, <<1, 4>>, <<2, 4>> >>

\* decode_syndrome: syndrome pattern to error location
syndrome_table_swapped ==
  [ s \in {0, 1} \X {0, 1} |->
      CASE s = <<0, 0>> -> "no_error"
        [] s = <<1, 0>> -> "error_q2"
        [] s = <<1, 1>> -> "error_q1"
        [] s = <<0, 1>> -> "error_q0" ]

syndrome_table ==
  [ s \in {0, 1} \X {0, 1} |->
      CASE s = <<0, 0>> -> "no_error"
        [] s = <<1, 0>> -> "error_q0"
        [] s = <<1, 1>> -> "error_q1"
        [] s = <<0, 1>> -> "error_q2" ]

\* positions of the run inside the circuit: before its k-th gate
BeforeGate == <<"cnot_1", "cnot_2", "cnot_3", "cnot_4">>

\* circuit.cnot(control, target) on a basis state
cnot(register, control, target) ==
  [register EXCEPT ![target] = (register[target] + register[control]) % 2]

\* Noise flips one data qubit of the encoded state.
BitFlip ==
  /\ qec_pc = "encoded"
  /\ Len(flips) < MaxFlips
  /\ \E i \in DataQubits :
       /\ qubits' = [qubits EXCEPT ![i] = 1 - qubits[i]]
       /\ flips' = Append(flips, i)
  /\ UNCHANGED <<qec_pc, measurement_results, decoded>>
  /\ UNCHANGED <<run_vars, study_vars, ci_vars>>

\* The syndrome detection circuit starts: no further noise is modelled.
StartDetection ==
  /\ qec_pc = "encoded"
  /\ qec_pc' = BeforeGate[1]
  /\ UNCHANGED <<qubits, flips, measurement_results, decoded>>
  /\ UNCHANGED <<run_vars, study_vars, ci_vars>>

\* The next CNOT of the syndrome detection circuit.
ApplyCnot ==
  /\ \E k \in 1 .. Len(syndrome_detection_circuit) :
       /\ qec_pc = BeforeGate[k]
       /\ LET gate == syndrome_detection_circuit[k]
          IN qubits' = cnot(qubits, gate[1], gate[2])
       /\ qec_pc' = IF k < Len(syndrome_detection_circuit)
                    THEN BeforeGate[k + 1] ELSE "detected"
  /\ UNCHANGED <<flips, measurement_results, decoded>>
  /\ UNCHANGED <<run_vars, study_vars, ci_vars>>

\* The two syndrome qubits are measured.
MeasureSyndrome ==
  /\ qec_pc = "detected"
  /\ measurement_results' = <<qubits[3], qubits[4]>>
  /\ qec_pc' = "measured"
  /\ UNCHANGED <<qubits, flips, decoded>>
  /\ UNCHANGED <<run_vars, study_vars, ci_vars>>

\* decode_syndrome(measurement_results)
DecodeSyndrome ==
  /\ qec_pc = "measured"
  /\ decoded' = syndrome_table[measurement_results]
  /\ qec_pc' = "decoded"
  /\ UNCHANGED <<qubits, flips, measurement_results>>
  /\ UNCHANGED <<run_vars, study_vars, ci_vars>>

\* One of the two codewords, syndrome qubits at 0.
InitQEC ==
  /\ NoBenchmark
  /\ NoStudy
  /\ NoCI
  /\ qec_pc = "encoded"
  /\ \E logical \in {0, 1} :
       qubits = [q \in 0 .. 4 |-> IF q \in DataQubits THEN logical ELSE 0]
  /\ flips = <<>>
  /\ measurement_results = NoSyndrome
  /\ decoded = "none"

NextQEC ==
  \/ BitFlip
  \/ StartDetection
  \/ ApplyCnot
  \/ MeasureSyndrome
  \/ DecodeSyndrome

SpecQEC == InitQEC /\ [][NextQEC]_vars

\* ------------------------------------------- run_ci.sh and the CI workflow
\* A script is a sequence of lines; a line runs under a step of the script.
\* The echo lines that only report progress are left out, the ones that
\* decide an exit status or print the final message are kept.
Simple(step, cmd) == [step |-> step, kind |-> "simple", cmds |-> <<cmd>>]

\* cmd_1 | ... | cmd_n
Pipeline(step, cmds) == [step |-> step, kind |-> "pipeline", cmds |-> cmds]

\* cmd || fallback
OrElse(step, cmd, fallback) ==
  [step |-> step, kind |-> "or", cmds |-> <<cmd, fallback>>]

\* the lines of run_ci.sh
run_ci_sh ==
  << Simple("install", "pip_upgrade"),
     Simple("install", "pip_install"),
     Pipeline("freeze", <<"pip_freeze", "head">>),
     Simple("cloud", "cloud_verification"),
     Simple("tests", "test_exact_optimum"),
     Simple("tests", "test_comprehensive"),
     OrElse("audit", "safety_check", "echo_warning"),
     Simple("complete", "echo_all_steps_passed") >>

\* the run: lines of the steps of the job "test" of the workflow
qubo_track_ci ==
  << Simple("install", "pip_upgrade"),
     Simple("install", "pip_install"),
     Pipeline("freeze", <<"pip_freeze", "grep", "sort">>),
     Simple("freeze", "cat"),
     Simple("tests", "test_exact_optimum"),
     Simple("tests", "test_comprehensive"),
     Simple("cloud", "cloud_verification"),
     Simple("files", "ls_files"),
     OrElse("audit", "safety_check", "echo_warning") >>

\* set -e
errexit_off == FALSE

errexit == TRUE

\* the shell of a run: step of the workflow, bash -e
bash_e == TRUE

status(cmd) == IF cmd \in MayFail THEN exit_status[cmd] ELSE 0

\* The exit status of a line: of a pipeline, the status of its last command;
\* of "cmd || fallback", 0 when cmd succeeds and the status of fallback
\* otherwise.
line_status(line) ==
  CASE line.kind = "simple" -> status(line.cmds[1])
    [] line.kind = "pipeline" -> status(line.cmds[Len(line.cmds)])
    [] line.kind = "or" -> IF status(line.cmds[1]) = 0
                           THEN 0 ELSE status(line.cmds[2])

\* The commands a line runs.
line_runs(line) ==
  LET cmds == IF line.kind = "or" /\ status(line.cmds[1]) = 0
              THEN <<line.cmds[1]>> ELSE line.cmds
  IN [i \in 1 .. Len(cmds) |-> [step |-> line.step, cmd |-> cmds[i]]]

\* What the shell does after a line: it exits when the line failed and the
\* exit-on-error option is set, it ends after the last line of the script.
after_line(script, at, exits) ==
  IF line_status(script[at]) # 0 /\ exits
  THEN [pc |-> at, state |-> "failed"]
  ELSE IF at = Len(script)
       THEN [pc |-> at + 1,
             state |-> IF line_status(script[at]) = 0
                       THEN "passed" ELSE "failed"]
       ELSE [pc |-> at + 1, state |-> "running"]

\* run_ci.sh runs its next line.
LocalLine ==
  /\ local_state = "running"
  /\ local_ran' = local_ran \o line_runs(run_ci_sh[local_pc])
  /\ LET next == after_line(run_ci_sh, local_pc, errexit)
     IN local_pc' = next.pc /\ local_state' = next.state
  /\ UNCHANGED <<exit_status, ci_pc, ci_state, ci_ran>>
  /\ UNCHANGED <<run_vars, study_vars, qec_vars>>

\* The job of the workflow runs its next line; a failed step fails the job
\* and the later steps are skipped.
CiLine ==
  /\ ci_state = "running"
  /\ ci_ran' = ci_ran \o line_runs(qubo_track_ci[ci_pc])
  /\ LET next == after_line(qubo_track_ci, ci_pc, bash_e)
     IN ci_pc' = next.pc /\ ci_state' = next.state
  /\ UNCHANGED <<exit_status, local_pc, local_state, local_ran>>
  /\ UNCHANGED <<run_vars, study_vars, qec_vars>>

\* One checkout, in which every command has its exit status; the script is
\* run locally and the workflow runs on the same commit.
InitCI ==
  /\ NoBenchmark
  /\ NoStudy
  /\ NoQEC
  /\ exit_status \in [MayFail -> {0, 1}]
  /\ local_pc = 1
  /\ local_state = "running"
  /\ local_ran = <<>>
  /\ ci_pc = 1
  /\ ci_state = "running"
  /\ ci_ran = <<>>

NextCI ==
  \/ LocalLine
  \/ CiLine

SpecCI == InitCI /\ [][NextCI]_vars

\* ------------------------------------------------------------- properties
GraphAt(k) == Graphs[battery[k]]

\* The graph at position k has been left behind by the batch.
Processed(k) == k < gi \/ pc \in {"correction", "save", "done"}

\* Number of edges with exactly one endpoint in the vertex set S.
CutOfSide(g, S) == Cardinality({e \in g.edges : (e[1] \in S) # (e[2] \in S)})

\* The largest cut over the bipartitions that split the vertices of V.
MaxCutOver(g, V) ==
  CHOOSE m \in 0 .. Cardinality(g.edges) :
    /\ \E S \in SUBSET V : CutOfSide(g, S) = m
    /\ \A S \in SUBSET V : CutOfSide(g, S) <= m

\* Vertices with an edge; the others are on either side without effect.
Endpoints(g) == { u \in Nodes(g) : \E e \in g.edges : u = e[1] \/ u = e[2] }

RowsOfGraph(k) ==
  { i \in 1 .. Len(results) : results[i].graph_name = battery[k] }

FailuresOfGraph(name, method) ==
  { i \in 1 .. Len(failed_trials) :
      failed_trials[i].graph_name = name /\ failed_trials[i].method = method }

AllEqual(seq) == \A i, j \in 1 .. Len(seq) : seq[i] = seq[j]

\* Both samples have their values, all of them the same one.
Constant(seq) == Len(seq) >= 1 /\ AllEqual(seq)

IdenticalSamples(c) ==
  Constant(c.sa) /\ Constant(c.tabu) /\ c.sa[1] = c.tabu[1]

IdenticalReport == "t-test undefined (identical samples)"

\* compute_exact_max_cut has just returned for the current graph
JustReturned == pc = "trials" /\ trial_id = 0

\* C1: when compute_exact_max_cut returns in exact mode, its result is the
\* maximum, over all 2^n assignments of the vertices to two sides, of the
\* number of edges whose endpoints are on different sides.
ExactOptimumIsMaximum ==
  (JustReturned /\ optimum[gi].kind = "exact") =>
    optimum[gi].value = MaxCutOver(CurGraph, Nodes(CurGraph))

ExactOptimumWitness ==
  /\ JustReturned
  /\ optimum[gi].kind = "exact"
  /\ optimum[gi].value = 2
  /\ evaluated[gi] = Pow2(CurGraph.n)
  /\ CurGraph.n > QuickCutoff

GraphErrorGoesOn ==
  (Len(errors') > Len(errors)) =>
    (/\ crash' = "none"
     /\ \/ gi' = gi + 1 /\ pc' = "optimum"
        \/ gi = Len(battery) /\ pc' = "correction")

\* a step that meets a sampler failure goes on to the next trial
TrialFailureGoesOn ==
  (Len(failed_trials') > Len(failed_trials)) =>
    (crash' = "none" /\ pc' = "trials" /\ trial_id' = trial_id + 1)

\* C5: a graph rejected as too large, or a sampler failure in one trial, never
\* ends the batch: the step that meets the error goes on to the next graph or
\* trial, and when the run is done every graph that was not rejected has all
\* its trials in the records and its statistics.  The only run that ends
\* early is one that divides by an optimum of 0.
BatchSurvivesScopedErrors ==
  /\ [](pc = "crashed" =>
         /\ crash = "ZeroDivisionError"
         /\ optimum[gi].kind \in {"exact", "approx"}
         /\ optimum[gi].value = 0)
  /\ [](pc = "done" =>
         \A k \in 1 .. Len(battery) :
           \/ optimum[k].kind = "error"
           \/ /\ Cardinality(RowsOfGraph(k))
                    + Cardinality(FailuresOfGraph(battery[k], SA))
                    + Cardinality(FailuresOfGraph(battery[k], Tabu))
                  = 2 * NumTrials
              /\ \E j \in 1 .. Len(comparisons) :
                   comparisons[j].graph_name = battery[k])
  /\ [][GraphErrorGoesOn /\ TrialFailureGoesOn]_vars

BatchDoneAfterErrorsWitness ==
  /\ pc = "done"
  /\ errors # <<>>
  /\ failed_trials # <<>>
  /\ results # <<>>

\* C6: a failed heuristic run is in the list of failed trials, has no row in
\* the result table, and the samples the statistics are computed from hold
\* exactly the runs of the graph and method that did not fail; no run is
\* missing from both records.
FailedTrialsRecordedNotCounted ==
  /\ \A f \in 1 .. Len(failed_trials) : \A i \in 1 .. Len(results) :
       ~ /\ results[i].graph_name = failed_trials[f].graph_name
         /\ results[i].method = failed_trials[f].method
         /\ results[i].trial_id = failed_trials[f].trial_id
  /\ \A j \in 1 .. Len(comparisons) :
       LET c == comparisons[j] IN
         /\ Len(c.sa) + Cardinality(FailuresOfGraph(c.graph_name, SA)) = NumTrials
         /\ Len(c.tabu) + Cardinality(FailuresOfGraph(c.graph_name, Tabu)) = NumTrials
  /\ \A k \in 1 .. Len(battery) :
       (gi = k /\ pc = "trials") =>
         Cardinality(RowsOfGraph(k))
           + Cardinality(FailuresOfGraph(battery[k], SA))
           + Cardinality(FailuresOfGraph(battery[k], Tabu)) = 2 * trial_id

FailedTrialExcludedWitness ==
  \E j \in 1 .. Len(comparisons) :
    /\ FailuresOfGraph(comparisons[j].graph_name, SA) # {}
    /\ Len(comparisons[j].sa) = NumTrials - 1
    /\ Len(comparisons[j].tabu) = NumTrials

\* C7: on a graph without edges the trial loop does not fail and every row
\* of the graph has quality exactly 1.
ZeroEdgeQualityIsOne ==
  \A k \in 1 .. Len(battery) :
    GraphAt(k).edges = {} =>
      /\ gi = k => crash = "none"
      /\ \A i \in RowsOfGraph(k) :
           results[i].quality[2] # 0 /\ results[i].quality[1] = results[i].quality[2]

\* C8: a graph whose two samples are identical (every quality of both
\* methods the same value) is reported as "t-test undefined (identical
\* samples)", its p-value is nan, and no nan and no more than the p-values
\* of the other graphs enter the Holm-Bonferroni correction.
IdenticalSamplesReportedAndSkipped ==
  /\ \A j \in 1 .. Len(comparisons) :
       IdenticalSamples(comparisons[j]) =>
         /\ comparisons[j].t_report = IdenticalReport
         /\ p_values[j].nan
  /\ summary.printed =>
       /\ \A i \in 1 .. Len(summary.corrected) : ~summary.corrected[i].nan
       /\ Len(summary.corrected)
            <= Len(comparisons)
                 - Cardinality({j \in 1 .. Len(comparisons) :
                                  IdenticalSamples(comparisons[j])})

IdenticalSkippedOtherKeptWitness ==
  /\ summary.printed
  /\ Len(summary.corrected) = 1
  /\ \E j \in 1 .. Len(comparisons) :
       /\ IdenticalSamples(comparisons[j])
       /\ Len(comparisons[j].sa) = NumTrials
       /\ Len(comparisons[j].tabu) = NumTrials

\* C9, as stated: the Y of "Significant after correction: X/Y" is the number
\* of graphs whose comparison was not skipped as an identical-samples case.
SummaryDenominatorIsValidCount ==
  summary.printed =>
    summary.of = Cardinality({j \in 1 .. Len(comparisons) :
                                comparisons[j].t_report # IdenticalReport})

\* C9, amended: the Y of "Significant after correction: X/Y" is the number of
\* all compared graphs, the valid tests and the skipped identical-samples
\* cases together.
SummaryDenominatorIsAllTests ==
  summary.printed =>
    /\ summary.of = Len(comparisons)
    /\ summary.of
         = Cardinality({j \in 1 .. Len(comparisons) :
                          comparisons[j].t_report # IdenticalReport})
           + Cardinality({j \in 1 .. Len(comparisons) :
                            comparisons[j].t_report = IdenticalReport})
    /\ summary.total = summary.of

SummaryWithSkippedWitness ==
  /\ summary.printed
  /\ summary.of = 2
  /\ summary.valid = 1
  /\ summary.skipped = 1

\* C10: when both samples have zero variance and the means differ, Cohen's d
\* is reported as "undefined (division by zero)"; "0.0 (identical samples)"
\* is reported only when both samples have zero variance and equal means.
CohensDZeroVariance ==
  \A j \in 1 .. Len(comparisons) :
    LET c == comparisons[j]
        zero == Len(c.sa) >= 2 /\ Len(c.tabu) >= 2
                  /\ AllEqual(c.sa) /\ AllEqual(c.tabu)
    IN /\ (zero /\ c.sa[1] # c.tabu[1]) =>
            c.cohens_d = "undefined (division by zero)"
       /\ c.cohens_d = "0.0 (identical samples)" =>
            zero /\ c.sa[1] = c.tabu[1]
       /\ c.cohens_d = "undefined (division by zero)" =>
            zero /\ c.sa[1] # c.tabu[1]

CohensDDivisionByZeroWitness ==
  \E j \in 1 .. Len(comparisons) :
    /\ comparisons[j].cohens_d = "undefined (division by zero)"
    /\ comparisons[j].sa[1] # comparisons[j].tabu[1]

\* the reports of Cohen's d that say why there is no number
CohensDReasons ==
  { "0.0 (identical samples)", "undefined (division by zero)",
    "undefined (too few samples)" }

Unmeasured(rows) ==
  [i \in 1 .. Len(rows) |-> [rows[i] EXCEPT !.execution_time = 0]]

\* a results file without the columns that hold or derive from the optimum
WithoutOptimum(rows) ==
  [i \in 1 .. Len(rows) |->
     [rows[i] EXCEPT !.execution_time = 0, !.exact_optimum = 0,
                     !.quality = <<0, 0>>]]

ApproximatedRows(rows) ==
  { i \in 1 .. Len(rows) :
      UsesApproximation(quick_mode, Graphs[rows[i].graph_name].n) }

ReportingStep ==
  comparisons' # comparisons \/ summary' # summary \/ csv' # csv

\* C16: a row of the result table is never changed or removed: every step
\* leaves the rows that are there in place, a step of the analysis or of the
\* reporting leaves the whole table as it is, an optimum once computed keeps
\* its value, and the battery of graphs is the same throughout.
RecordsAreAppendOnly ==
  [][/\ Len(results') >= Len(results)
     /\ SubSeq(results', 1, Len(results)) = results
     /\ ReportingStep => (results' = results /\ optimum' = optimum)
     /\ \A k \in 1 .. Len(battery) :
          optimum[k].kind # "none" => optimum'[k] = optimum[k]
     /\ battery' = battery]_vars

RecordsKeptToTheEndWitness ==
  /\ pc = "done"
  /\ Len(battery) = 2
  /\ Len(results) = 4 * NumTrials
  /\ Len(csv) = Len(results)
  /\ Len(comparisons) = 2

\* a row that says its optimum is a stand-in
MarkedApproximate(r) ==
  "optimum_is_exact" \in DOMAIN r /\ r.optimum_is_exact = FALSE

\* C17: every row, in the table and in the results file, whose optimum is the
\* quick-mode approximation is marked as approximate.
ApproximateOptimaAreMarked ==
  /\ \A i \in ApproximatedRows(results) : MarkedApproximate(results[i])
  /\ \A i \in ApproximatedRows(csv) : MarkedApproximate(csv[i])

SchemaVersionOnEveryRow ==
  /\ \A i \in 1 .. Len(csv) :
       "schema_version" \in DOMAIN csv[i] /\ csv[i].schema_version = 1
  /\ pc = "done" => Len(csv) = Len(results)

SchemaVersionInQuickModeWitness ==
  /\ pc = "done"
  /\ quick_mode
  /\ optimum[1].kind = "approx"
  /\ Len(csv) = 2 * NumTrials
  /\ csv[1].schema_version = 1

MethodsNamed == {results[i].method : i \in 1 .. Len(results)}
                  \cup {csv[i].method : i \in 1 .. Len(csv)}
                  \cup {failed_trials[i].method : i \in 1 .. Len(failed_trials)}

RowsNamed(name) == SelectSeq(results, LAMBDA r : r.graph_name = name)

RECURSIVE SequentialRows(_)
\* What the sequential loop puts into the table from trial i on, given the
\* sampler results the workers have got: per trial the annealer's row, then
\* Tabu's.
SequentialRows(i) ==
  IF i = NumTrials THEN <<>>
  ELSE LET k == CHOOSE j \in 1 .. Len(battery) : battery[j] = pool.graph
       IN RowsOf(pool.graph, SA, i, pool.tasks[<<SA, i>>].out,
                 optimum[k].value)
            \o RowsOf(pool.graph, Tabu, i, pool.tasks[<<Tabu, i>>].out,
                      optimum[k].value)
            \o SequentialRows(i + 1)

Collected == \A t \in Tasks : pool.tasks[t].state = "collected"

\* Nothing of the pool's graph is in the table before the collector has run,
\* and after it the table has the rows of a sequential run in their order.
TableOfPoolIsSequential ==
  /\ pc = "workers" =>
       /\ RowsNamed(pool.graph) = <<>>
       /\ \A t \in Tasks :
            pool.tasks[t].seed = SeedBase + t[2]
  /\ Collected =>
       /\ RowsNamed(pool.graph) = SequentialRows(0)
       /\ \A t \in Tasks :
            pool.tasks[t].out.ok =>
              \E i \in 1 .. Len(results) :
                /\ results[i].graph_name = pool.graph
                /\ results[i].method = t[1]
                /\ results[i].trial_id = t[2]
                /\ results[i].trial_seed = pool.tasks[t].seed
                /\ results[i].cut_value = pool.tasks[t].out.cut

\* a step of a worker leaves the table and the seeds alone; the table grows
\* in the step of the collector only, when every worker is through
WorkersLeaveTable ==
  /\ (pc = "workers" /\ pc' = "workers") =>
       /\ results' = results
       /\ \A t \in Tasks : pool'.tasks[t].seed = pool.tasks[t].seed
  /\ (results' # results) =>
       (pc = "workers" /\ \A t \in Tasks : pool.tasks[t].state = "done")

\* C15: with the trials on parallel workers the table has the rows of a
\* sequential run in the order of a sequential run, in whatever order the
\* workers start and finish; every trial has its seed from the dispatch on,
\* and rows enter the table only in the step of the collector, after all
\* workers are through.
ParallelRunKeepsSequentialTable ==
  []TableOfPoolIsSequential /\ [][WorkersLeaveTable]_vars

OvertakenStillSequentialWitness ==
  /\ Collected
  /\ pool.overtaken
  /\ Len(RowsNamed(pool.graph)) = 2 * NumTrials - 1
  /\ RowsNamed(pool.graph) = SequentialRows(0)

\* The brute force is at work on the triangle graph.
OnTriangle == battery[gi] = "K3" /\ CurGraph.n = 3

\* C21: on the triangle graph the exact optimum is 2 and every one of the 8
\* assignments the brute force evaluates has cut value 0 (all three vertices
\* on the same side) or 2 (one vertex against the other two), never 1 or 3.
TriangleCutsZeroOrTwo ==
  /\ (pc = "enum" /\ OnTriangle /\ enum_i < Pow2(3)) =>
       LET a == Assignment(CurGraph, enum_i)
       IN /\ cut_value(CurGraph, a) =
               (IF a[0] = a[1] /\ a[1] = a[2] THEN 0 ELSE 2)
          /\ best_cut \in {0, 2}
  /\ (JustReturned /\ OnTriangle) =>
       /\ optimum[gi] = [kind |-> "exact", value |-> 2]
       /\ evaluated[gi] = 8

TriangleAllEightEvaluatedWitness ==
  /\ JustReturned
  /\ OnTriangle
  /\ evaluated[gi] = 8
  /\ optimum[gi].value = 2
  /\ ~quick_mode

IsComplete(g) == g.edges = Complete(g.n).edges

\* C22: for every complete graph K_n within the exact-search cutoff the exact
\* solver returns floor(n/2) * ceil(n/2); K3 gives 2, K4 gives 4, K6 gives 9.
CompleteGraphOptimum ==
  (JustReturned /\ IsComplete(CurGraph) /\ CurGraph.n <= MaxExactNodes) =>
    /\ optimum[gi] = [kind |-> "exact",
                      value |-> (CurGraph.n \div 2) * ((CurGraph.n + 1) \div 2)]
    /\ battery[gi] = "K3" => optimum[gi].value = 2
    /\ battery[gi] = "K4" => optimum[gi].value = 4
    /\ battery[gi] = "K6" => optimum[gi].value = 9

CompleteGraphK6Witness ==
  /\ JustReturned
  /\ battery[gi] = "K6"
  /\ IsComplete(CurGraph)
  /\ CurGraph.n = 6
  /\ evaluated[gi] = 64
  /\ optimum[gi].value = 9

\* C23: every record written to the results file has a quality between 0 and
\* 1 inclusive, in full mode and in quick mode, also when the optimum of its
\* graph is the Tabu approximation of quick mode.
EveryWrittenQualityInUnitInterval ==
  \A i \in 1 .. Len(csv) :
    /\ csv[i].quality[2] > 0
    /\ 0 <= csv[i].quality[1]
    /\ csv[i].quality[1] <= csv[i].quality[2]

Bits(a, b, c) == <<a, b, c>>

ComparisonOf(bitstring) ==
  CHOOSE c \in cut_comparisons : c.bitstring = bitstring

Xor(a, b) == (a + b) % 2

ErrorOn(i) == <<"error_q0", "error_q1", "error_q2">>[i + 1]

\* C26: for each codeword of the 3-qubit bit-flip code (000 and 111) and each
\* single bit flip on data qubit q_i, the syndrome (S1, S2) = (q0 XOR q1,
\* q1 XOR q2) that the detection circuit produces is decoded to error_q_i;
\* with no bit flip the syndrome is (0, 0) and is decoded to no_error.
SingleFlipDecoded ==
  /\ qec_pc \in {"measured", "decoded"} =>
       measurement_results = << Xor(qubits[0], qubits[1]),
                                Xor(qubits[1], qubits[2]) >>
  /\ (qec_pc = "decoded" /\ flips = <<>>) =>
       measurement_results = <<0, 0>> /\ decoded = "no_error"
  /\ (qec_pc = "decoded" /\ Len(flips) = 1) =>
       decoded = ErrorOn(flips[1])

SingleFlipOnCodeword111Witness ==
  /\ qec_pc = "decoded"
  /\ flips = <<0>>
  /\ qubits[1] = 1 /\ qubits[2] = 1 /\ qubits[0] = 0
  /\ measurement_results = <<1, 0>>
  /\ decoded = "error_q0"

RECURSIVE StepsOf(_)
\* The steps of a run in the order in which they were started.
StepsOf(ran) ==
  IF ran = <<>> THEN <<>>
  ELSE LET before == StepsOf(SubSeq(ran, 1, Len(ran) - 1))
           step == ran[Len(ran)].step
       IN IF before # <<>> /\ before[Len(before)] = step
          THEN before ELSE Append(before, step)

VerificationSteps == {"install", "freeze", "tests", "cloud", "audit"}

IsVerificationStep(step) == step \in VerificationSteps

\* C29: run_ci.sh executes the same verification steps in the same order as
\* the QUBO Track CI workflow (dependency install, dependency-freeze check,
\* unit tests, cloud verification, security audit), so that a local run
\* passes exactly when the steps of the CI job pass.
RunCiMatchesWorkflow ==
  (local_state \in {"passed", "failed"} /\ ci_state \in {"passed", "failed"}) =>
    /\ local_state = ci_state
    /\ (local_state = "passed" /\ ci_state = "passed") =>
         SelectSeq(StepsOf(local_ran), IsVerificationStep)
           = SelectSeq(StepsOf(ci_ran), IsVerificationStep)

BannerPrinted ==
  \E i \in 1 .. Len(local_ran) : local_ran[i].cmd = "echo_all_steps_passed"

\* the commands of the steps before the final message
StepCommands ==
  { "pip_upgrade", "pip_install", "pip_freeze", "cloud_verification",
    "test_exact_optimum", "test_comprehensive", "safety_check" }

\* the commands whose failure ends run_ci.sh
Guarded ==
  { "pip_upgrade", "pip_install", "cloud_verification", "test_exact_optimum",
    "test_comprehensive" }

HasRun(cmd) == \E i \in 1 .. Len(local_ran) : local_ran[i].cmd = cmd

====
